---- MODULE Spec2Model ----
(***************************************************************************)
(* Model of the Spotify "now playing" serverless handler.                  *)
(*                                                                         *)
(*   "mjs"      src/api/now-playing.mjs            (current handler)       *)
(*   "fallback" src/unnamed/part_000 lines 1-129   (earlier revision with  *)
(*              the recently-played fallback)                              *)
(*   "basic"    src/unnamed/part_000 lines 130-247 (earliest revision, no  *)
(*              fallback, no status field)                                 *)
(*                                                                         *)
(* Every invocation is a chain of awaits; invocations interleave at every   *)
(* await.  The status of an upstream answer is an input chosen when the    *)
(* fetch settles, its body when response.json() settles.                   *)
(***************************************************************************)
EXTENDS Integers, Sequences, FiniteSets, TLC

\* ------------------------------------------------------------------ bounds
NumInvocations == 2

Invocations == 1..NumInvocations

Revisions == {"mjs", "fallback", "basic"}

VARIABLES
  rev,           \* the revision of the handler that serves the requests
  pc,            \* pc[i]: where invocation i stands in the pipeline
  access_token,  \* access_token[i]: the local of getNowPlaying
  calls,         \* calls[i]: the fetch calls invocation i has made, in order
  result,        \* result[i]: how the promise of getNowPlaying() settled
  written        \* written[i]: the HTTP responses invocation i has written

vars == <<rev, pc, access_token, calls, result, written>>

\* ------------------------------------------------------- JSON value domain
\* JavaScript undefined, for the string-valued properties of the result.
Undefined == "<undefined>"

StringKeys == {"status", "trackName", "artistName", "albumArtUrl", "songUrl", "error"}

EmptyBody == [kind |-> "empty"]
JsonNull == [kind |-> "null"]

Artist(n) == [name |-> n]
Image(u) == [url |-> u]

\* A track with two artists and two album images.
TrackA ==
  [kind |-> "object", type |-> "track", name |-> "Song A",
   artists |-> <<Artist("Ann"), Artist("Bob")>>,
   album |-> [images |-> <<Image("imgA1"), Image("imgA2")>>],
   external_urls |-> [spotify |-> "urlA"], duration_ms |-> 200]

\* A track whose album has no images.
TrackB ==
  [kind |-> "object", type |-> "track", name |-> "Song B",
   artists |-> <<Artist("Cy")>>,
   album |-> [images |-> <<>>],
   external_urls |-> [spotify |-> "urlB"], duration_ms |-> 300]

\* A podcast episode: an item that is not a track.
EpisodeC ==
  [kind |-> "object", type |-> "episode", name |-> "Show C",
   duration_ms |-> 900]

Song(playing, item, progress) ==
  [kind |-> "object", is_playing |-> playing, item |-> item, progress_ms |-> progress]

Response(status, body) == [kind |-> "response", status |-> status, body |-> body]

\* fetch() rejects (DNS failure, connection reset).
NetworkError == [kind |-> "reject"]

\* Response.ok
Ok(response) == response.status >= 200 /\ response.status <= 299

\* ------------------------------------------------------- upstream answers
\* The access token issued by the token endpoint for the exchange made by
\* invocation i: every exchange yields a fresh token.
IssuedToken(i) == "token-" \o ToString(i)

TokenGranted(i) ==
  Response(200, [kind |-> "object", access_token |-> IssuedToken(i),
                 text |-> "{\"access_token\":\"" \o IssuedToken(i) \o "\"}"])

\* 2xx without an access_token property.
TokenMissing ==
  Response(200, [kind |-> "object", access_token |-> Undefined, text |-> "{}"])

TokenDenied ==
  Response(401, [kind |-> "object", access_token |-> Undefined,
                 text |-> "{\"error\":\"invalid_grant\"}"])

TokenGatewayDown == Response(502, EmptyBody)

TokenResponses(i) ==
  {TokenGranted(i), TokenMissing, TokenDenied, TokenGatewayDown, NetworkError}

ErrorBody == [kind |-> "object", is_playing |-> FALSE, item |-> JsonNull, progress_ms |-> 0]

NowPlayingResponses ==
  { Response(200, Song(TRUE, TrackA, 50)),
    Response(200, Song(TRUE, TrackB, 70)),
    Response(200, Song(TRUE, TrackA, 90)),
    Response(200, Song(FALSE, TrackA, 50)),
    Response(200, Song(TRUE, EpisodeC, 10)),
    Response(200, Song(TRUE, JsonNull, 0)),
    Response(200, JsonNull),
    Response(200, EmptyBody),
    Response(204, EmptyBody),
    Response(404, ErrorBody),
    Response(401, ErrorBody),
    NetworkError }

History(items) == [kind |-> "object", items |-> items]
PlayHistory(track) == [track |-> track]

RecentResponses ==
  { Response(200, History(<<PlayHistory(TrackB), PlayHistory(TrackA)>>)),
    Response(200, History(<<>>)),
    Response(200, EmptyBody),
    Response(401, History(<<>>)),
    NetworkError }

\* ------------------------------------------------------- pure helpers
\* Array.prototype.join: elements separated by sep.
RECURSIVE Join(_, _)
Join(strs, sep) ==
  IF Len(strs) = 0 THEN ""
  ELSE IF Len(strs) = 1 THEN strs[1]
  ELSE strs[1] \o sep \o Join(Tail(strs), sep)

\* artists.map((artist) => artist.name)
ArtistNames(artists) == [k \in 1..Len(artists) |-> artists[k].name]

\* images[0]?.url
FirstImageUrl(images) == IF Len(images) = 0 THEN Undefined ELSE images[1].url

\* Mutant: properties whose value is undefined are written out.
JsonStringify_keepUndefined(obj) == obj

\* JSON.stringify of a result object: properties whose value is undefined
\* are left out.
JsonStringify(obj) ==
  LET keep == {k \in DOMAIN obj : (k \in StringKeys) => (obj[k] # Undefined)}
  IN  [k \in keep |-> obj[k]]

Return(data) == [kind |-> "return", data |-> data]
Throw(message) == [kind |-> "throw", message |-> message]
\* The step neither returned nor threw: control goes on to the next fetch.
FallThrough == [kind |-> "continue"]

\* Messages of the errors the runtime raises.
FetchFailed == "fetch failed"
JsonSyntaxError == "Unexpected end of JSON input"
NullSongError == "Cannot read properties of null (reading 'is_playing')"
NullItemError == "Cannot read properties of null (reading 'item')"

\* JavaScript truthiness of a string-or-undefined value.
Truthy(str) == str # Undefined /\ str # ""

\* ------------------------------------------------------- getAccessToken
\* response.json() runs before the response.ok test.
getAccessToken(response) ==
  IF response.kind = "reject" THEN Throw(FetchFailed)
  ELSE IF response.body.kind = "empty" THEN Throw(JsonSyntaxError)
  ELSE IF ~Ok(response)
       THEN Throw("Spotify token API returned " \o ToString(response.status)
                  \o ": " \o response.body.text)
  ELSE Return(response.body)

\* Mutant: the "if (!access_token) throw" test is left out.
TokenStep_noTokenTest(response) ==
  LET got == getAccessToken(response)
  IN  IF got.kind = "throw" THEN got ELSE FallThrough

\* const { access_token } = await getAccessToken(); if (!access_token) throw
TokenStep(response) ==
  LET got == getAccessToken(response)
  IN  IF got.kind = "throw" THEN got
      ELSE IF ~Truthy(got.data.access_token) THEN Throw("Could not get access token")
      ELSE FallThrough

\* Mutant: a token obtained by another invocation is reused when there is one.
BearerToken_cached(i, response) ==
  IF \E j \in Invocations \ {i} : access_token[j] # Undefined
  THEN access_token[CHOOSE j \in Invocations \ {i} : access_token[j] # Undefined]
  ELSE response.body.access_token

\* The bearer token invocation i sends: the access_token of its own exchange.
BearerToken(i, response) == response.body.access_token

\* ------------------------------------------------------- result objects
\* Mutant: the artist names are joined with "," instead of ", ".
PlayingResult_commaJoin(song) ==
  [status |-> "playing",
   isPlaying |-> song.is_playing,
   trackName |-> song.item.name,
   artistName |-> Join(ArtistNames(song.item.artists), ","),
   albumArtUrl |-> FirstImageUrl(song.item.album.images),
   songUrl |-> song.item.external_urls.spotify,
   progressMs |-> song.progress_ms,
   durationMs |-> song.item.duration_ms]

PlayingResult(song) ==
  [status |-> "playing",
   isPlaying |-> song.is_playing,
   trackName |-> song.item.name,
   artistName |-> Join(ArtistNames(song.item.artists), ", "),
   albumArtUrl |-> FirstImageUrl(song.item.album.images),
   songUrl |-> song.item.external_urls.spotify,
   progressMs |-> song.progress_ms,
   durationMs |-> song.item.duration_ms]

LastPlayedResult(lastTrack) ==
  [status |-> "last_played",
   isPlaying |-> FALSE,
   trackName |-> lastTrack.name,
   artistName |-> Join(ArtistNames(lastTrack.artists), ", "),
   albumArtUrl |-> FirstImageUrl(lastTrack.album.images),
   songUrl |-> lastTrack.external_urls.spotify,
   progressMs |-> 0,
   durationMs |-> lastTrack.duration_ms]

OfflineResult == [status |-> "offline", isPlaying |-> FALSE]

\* song && song.is_playing && song.item && song.item.type === 'track'
ActiveTrack(song) ==
  /\ song.kind = "object"
  /\ song.is_playing
  /\ song.item.kind = "object"
  /\ song.item.type = "track"

\* ------------------------------------------------------- playback step
\* Mutant: the playing result is built but not returned.
PlaybackStep_mjs_noReturn(response) ==
  IF response.kind = "reject" THEN Throw(FetchFailed)
  ELSE IF response.status = 200 /\ response.body.kind = "empty" THEN Throw(JsonSyntaxError)
  ELSE FallThrough

\* src/api/now-playing.mjs
PlaybackStep_mjs(response) ==
  IF response.kind = "reject" THEN Throw(FetchFailed)
  ELSE IF response.status = 200
       THEN IF response.body.kind = "empty" THEN Throw(JsonSyntaxError)
            ELSE IF ActiveTrack(response.body) THEN Return(PlayingResult(response.body))
            ELSE FallThrough
  ELSE FallThrough

\* part_000, first module: song.is_playing is read without the null test.
PlaybackStep_fallback(response) ==
  IF response.kind = "reject" THEN Throw(FetchFailed)
  ELSE IF response.status = 200
       THEN IF response.body.kind = "empty" THEN Throw(JsonSyntaxError)
            ELSE IF response.body.kind = "null" THEN Throw(NullSongError)
            ELSE IF ActiveTrack(response.body) THEN Return(PlayingResult(response.body))
            ELSE FallThrough
  ELSE FallThrough

\* The result of the earliest revision: no status property.
BasicResult(song) ==
  [isPlaying |-> song.is_playing,
   trackName |-> song.item.name,
   artistName |-> Join(ArtistNames(song.item.artists), ", "),
   albumArtUrl |-> FirstImageUrl(song.item.album.images),
   songUrl |-> song.item.external_urls.spotify,
   progressMs |-> song.progress_ms,
   durationMs |-> song.item.duration_ms]

NotPlayingResult == [isPlaying |-> FALSE]

\* part_000, second module: 204 and 404 answer at once, other non-2xx raise,
\* and there is no fallback query.
PlaybackStep_basic(response) ==
  IF response.kind = "reject" THEN Throw(FetchFailed)
  ELSE IF response.status = 204 THEN Return(NotPlayingResult)
  ELSE IF response.status = 404 THEN Return(NotPlayingResult)
  ELSE IF ~Ok(response)
       THEN Throw("Spotify API returned " \o ToString(response.status))
  ELSE IF response.body.kind = "empty" THEN Throw(JsonSyntaxError)
  ELSE IF response.body.kind = "null" THEN Throw(NullItemError)
  ELSE IF response.body.item.kind # "object" \/ response.body.item.type # "track"
       THEN Return(NotPlayingResult)
  ELSE Return(BasicResult(response.body))

\* ------------------------------------------------------- fallback step
\* Mutant: the oldest item of the history is taken instead of the first.
LastTrack_oldest(recentData) ==
  IF Len(recentData.items) = 0 THEN JsonNull
  ELSE recentData.items[Len(recentData.items)].track

\* recentData.items[0]?.track
LastTrack(recentData) ==
  IF Len(recentData.items) = 0 THEN JsonNull ELSE recentData.items[1].track

\* Mutant: items[0].track without the optional chaining, so an empty history
\* raises a TypeError.
RecentResult_noOptionalChain(response) ==
  IF response.body.kind = "empty" THEN Throw(JsonSyntaxError)
  ELSE IF Len(response.body.items) = 0
       THEN Throw("Cannot read properties of undefined (reading 'track')")
  ELSE Return(LastPlayedResult(response.body.items[1].track))

\* Lines 102-122 of now-playing.mjs, 88-105 of part_000.
RecentResult(response) ==
  IF response.body.kind = "empty" THEN Throw(JsonSyntaxError)
  ELSE IF LastTrack(response.body).kind = "object"
       THEN Return(LastPlayedResult(LastTrack(response.body)))
  ELSE Return(OfflineResult)

\* src/api/now-playing.mjs: a non-2xx answer degrades to offline.
FallbackStep_mjs(response) ==
  IF response.kind = "reject" THEN Throw(FetchFailed)
  ELSE IF ~Ok(response) THEN Return(OfflineResult)
  ELSE RecentResult(response)

\* part_000, first module: a non-2xx answer raises.
FallbackStep_fallback(response) ==
  IF response.kind = "reject" THEN Throw(FetchFailed)
  ELSE IF ~Ok(response)
       THEN Throw("Spotify recent-played API returned " \o ToString(response.status))
  ELSE RecentResult(response)

\* ------------------------------------------------------- default handler
NoHeaders == [h \in {} |-> ""]

JsonHeader == "Content-Type" :> "application/json"

HttpResponse(status, headers, body) ==
  [status |-> status, headers |-> headers, body |-> JsonStringify(body)]

\* Mutant: the headers are set before the try block, so the error reply
\* carries them too.
Handler_mjs_headersFirst(settled) ==
  IF settled.kind = "return"
  THEN HttpResponse(200,
         JsonHeader @@ ("cache-control" :> "public, s-maxage=10, stale-while-revalidate=5"),
         settled.data)
  ELSE HttpResponse(500,
         JsonHeader @@ ("cache-control" :> "public, s-maxage=10, stale-while-revalidate=5"),
         [status |-> "error", isPlaying |-> FALSE, error |-> settled.message])

\* src/api/now-playing.mjs; every value thrown in getNowPlaying is an Error,
\* so errorMessage is error.message.
Handler_mjs(settled) ==
  IF settled.kind = "return"
  THEN HttpResponse(200,
         JsonHeader @@ ("cache-control" :> "public, s-maxage=10, stale-while-revalidate=5"),
         settled.data)
  ELSE HttpResponse(500, NoHeaders,
         [status |-> "error", isPlaying |-> FALSE, error |-> settled.message])

\* part_000, first module
Handler_fallback(settled) ==
  IF settled.kind = "return"
  THEN HttpResponse(200,
         JsonHeader @@ ("cache-control" :> "public, s-maxage=10, stale-while-revalidate=5"),
         settled.data)
  ELSE HttpResponse(500, JsonHeader,
         [status |-> "error", isPlaying |-> FALSE, error |-> settled.message])

\* part_000, second module
Handler_basic(settled) ==
  IF settled.kind = "return"
  THEN HttpResponse(200,
         JsonHeader @@ ("cache-control" :> "public, s-maxage=30, stale-while-revalidate=15"),
         settled.data)
  ELSE HttpResponse(500, JsonHeader,
         [isPlaying |-> FALSE, error |-> settled.message])

\* ------------------------------------------------------- revision dispatch
PlaybackStep(r, response) ==
  CASE r = "mjs" -> PlaybackStep_mjs(response)
    [] r = "fallback" -> PlaybackStep_fallback(response)
    [] r = "basic" -> PlaybackStep_basic(response)

FallbackStep(r, response) ==
  CASE r = "mjs" -> FallbackStep_mjs(response)
    [] r = "fallback" -> FallbackStep_fallback(response)

Handler(r, settled) ==
  CASE r = "mjs" -> Handler_mjs(settled)
    [] r = "fallback" -> Handler_fallback(settled)
    [] r = "basic" -> Handler_basic(settled)

\* ------------------------------------------------------- state machine
\* Every await returns to the event loop, so each step below runs from the
\* settling of one awaited promise to the next await:
\*   await fetch(...), await response.json(), await getAccessToken(),
\*   await getNowPlaying().
Call(endpoint, auth, response) ==
  [endpoint |-> endpoint, auth |-> auth, response |-> response]

BasicAuth == "Basic BASIC_TOKEN"
BearerAuth(token) == "Bearer " \o token

\* A fetch that has not settled, a body that has not been read, and a
\* getNowPlaying() promise that has not settled.
PendingAnswer == [kind |-> "pending"]
PendingBody == [kind |-> "pending"]
PendingResult == [kind |-> "pending"]

\* What the settling of fetch() delivers: the status, not yet the body.
Headers(response) ==
  IF response.kind = "reject" THEN response
  ELSE Response(response.status, PendingBody)

\* Whether the playback step awaits response.json() for this status.
PlaybackAwaitsJson_mjs(response) == response.status = 200

PlaybackAwaitsJson_basic(response) ==
  response.status # 204 /\ response.status # 404 /\ Ok(response)

PlaybackAwaitsJson(r, response) ==
  CASE r = "mjs" -> PlaybackAwaitsJson_mjs(response)
    [] r = "fallback" -> PlaybackAwaitsJson_mjs(response)
    [] r = "basic" -> PlaybackAwaitsJson_basic(response)

\* Whether the fallback step awaits response.json() for this status.
RecentAwaitsJson(response) == Ok(response)

InitFor(revs) ==
  /\ rev \in revs
  /\ pc = [i \in Invocations |-> "idle"]
  /\ access_token = [i \in Invocations |-> Undefined]
  /\ calls = [i \in Invocations |-> <<>>]
  /\ result = [i \in Invocations |-> PendingResult]
  /\ written = [i \in Invocations |-> <<>>]

Init == InitFor({"mjs"})

\* The log of invocation i with the answer of its last call set to response.
Answered(i, response) ==
  [calls[i] EXCEPT ![Len(calls[i])].response = response]

\* The request arrives; the handler calls getNowPlaying, which calls
\* getAccessToken, which issues the token fetch and awaits it.
Invoke(i) ==
  /\ pc[i] = "idle"
  /\ pc' = [pc EXCEPT ![i] = "token_fetch"]
  /\ calls' = [calls EXCEPT ![i] = Append(@, Call("token", BasicAuth, PendingAnswer))]
  /\ UNCHANGED <<rev, access_token, result, written>>

\* getNowPlaying after the answer `response` of its last call has been judged
\* as `step`: it issues the next fetch, or settles.
Proceed(i, response, step, endpoint, next) ==
  IF step.kind = "continue"
  THEN /\ calls' = [calls EXCEPT ![i] =
             Append(Answered(i, response),
                    Call(endpoint, BearerAuth(access_token[i]), PendingAnswer))]
       /\ pc' = [pc EXCEPT ![i] = next]
       /\ UNCHANGED result
  ELSE /\ calls' = [calls EXCEPT ![i] = Answered(i, response)]
       /\ pc' = [pc EXCEPT ![i] = "reply"]
       /\ result' = [result EXCEPT ![i] = step]

\* await fetch(TOKEN_ENDPOINT) settles; on an answer response.json() is
\* called and awaited, on a rejection getAccessToken rejects.
TokenFetched(i) ==
  /\ pc[i] = "token_fetch"
  /\ \E response \in TokenResponses(i) :
       /\ calls' = [calls EXCEPT ![i] = Answered(i, Headers(response))]
       /\ pc' = [pc EXCEPT ![i] =
             IF response.kind = "reject" THEN "token_return" ELSE "token_json"]
  /\ UNCHANGED <<rev, access_token, result, written>>

\* await response.json() settles in getAccessToken, which returns or throws.
TokenParsed(i) ==
  /\ pc[i] = "token_json"
  /\ \E response \in TokenResponses(i) :
       /\ response.kind = "response"
       /\ response.status = calls[i][Len(calls[i])].response.status
       /\ calls' = [calls EXCEPT ![i] = Answered(i, response)]
  /\ pc' = [pc EXCEPT ![i] = "token_return"]
  /\ UNCHANGED <<rev, access_token, result, written>>

\* await getAccessToken() settles in getNowPlaying: it rethrows, throws for a
\* missing access_token, or issues the currently-playing fetch.
TokenReturned(i) ==
  /\ pc[i] = "token_return"
  /\ LET response == calls[i][Len(calls[i])].response
         step == TokenStep(response)
     IN  IF step.kind = "continue"
         THEN /\ access_token' = [access_token EXCEPT ![i] = BearerToken(i, response)]
              /\ calls' = [calls EXCEPT ![i] =
                    Append(@, Call("now_playing", BearerAuth(access_token'[i]),
                                   PendingAnswer))]
              /\ pc' = [pc EXCEPT ![i] = "now_playing_fetch"]
              /\ UNCHANGED result
         ELSE /\ result' = [result EXCEPT ![i] = step]
              /\ pc' = [pc EXCEPT ![i] = "reply"]
              /\ UNCHANGED <<access_token, calls>>
  /\ UNCHANGED <<rev, written>>

\* await fetch(NOW_PLAYING_ENDPOINT) settles.  When the status calls for the
\* body, response.json() is awaited; otherwise the step is decided at once.
PlaybackFetched(i) ==
  /\ pc[i] = "now_playing_fetch"
  /\ \E response \in NowPlayingResponses :
       IF response.kind = "response" /\ PlaybackAwaitsJson(rev, response)
       THEN /\ calls' = [calls EXCEPT ![i] = Answered(i, Headers(response))]
            /\ pc' = [pc EXCEPT ![i] = "now_playing_json"]
            /\ UNCHANGED result
       ELSE Proceed(i, Headers(response), PlaybackStep(rev, Headers(response)),
                    "recent", "recent_fetch")
  /\ UNCHANGED <<rev, access_token, written>>

\* await nowPlayingResponse.json() settles.
PlaybackParsed(i) ==
  /\ pc[i] = "now_playing_json"
  /\ \E response \in NowPlayingResponses :
       /\ response.kind = "response"
       /\ response.status = calls[i][Len(calls[i])].response.status
       /\ Proceed(i, response, PlaybackStep(rev, response), "recent", "recent_fetch")
  /\ UNCHANGED <<rev, access_token, written>>

\* await fetch(RECENTLY_PLAYED_ENDPOINT) settles.
RecentFetched(i) ==
  /\ pc[i] = "recent_fetch"
  /\ \E response \in RecentResponses :
       IF response.kind = "response" /\ RecentAwaitsJson(response)
       THEN /\ calls' = [calls EXCEPT ![i] = Answered(i, Headers(response))]
            /\ pc' = [pc EXCEPT ![i] = "recent_json"]
            /\ UNCHANGED result
       ELSE Proceed(i, Headers(response), FallbackStep(rev, Headers(response)),
                    "recent", "recent_fetch")
  /\ UNCHANGED <<rev, access_token, written>>

\* await recentResponse.json() settles.
RecentParsed(i) ==
  /\ pc[i] = "recent_json"
  /\ \E response \in RecentResponses :
       /\ response.kind = "response"
       /\ response.status = calls[i][Len(calls[i])].response.status
       /\ Proceed(i, response, FallbackStep(rev, response), "recent", "recent_fetch")
  /\ UNCHANGED <<rev, access_token, written>>

\* await getNowPlaying() settles in the handler, which writes the reply.
Respond(i) ==
  /\ pc[i] = "reply"
  /\ written' = [written EXCEPT ![i] = Append(@, Handler(rev, result[i]))]
  /\ pc' = [pc EXCEPT ![i] = "done"]
  /\ UNCHANGED <<rev, access_token, calls, result>>

Next ==
  \E i \in Invocations :
    \/ Invoke(i)
    \/ TokenFetched(i)
    \/ TokenParsed(i)
    \/ TokenReturned(i)
    \/ PlaybackFetched(i)
    \/ PlaybackParsed(i)
    \/ RecentFetched(i)
    \/ RecentParsed(i)
    \/ Respond(i)

Spec == Init /\ [][Next]_vars

\* Every outbound call returns and every settled promise is picked up by the
\* event loop.  Nothing obliges a request to arrive.
Fairness ==
  \A i \in Invocations :
    /\ WF_vars(TokenFetched(i))
    /\ WF_vars(TokenParsed(i))
    /\ WF_vars(TokenReturned(i))
    /\ WF_vars(PlaybackFetched(i))
    /\ WF_vars(PlaybackParsed(i))
    /\ WF_vars(RecentFetched(i))
    /\ WF_vars(RecentParsed(i))
    /\ WF_vars(Respond(i))

FairSpec == Spec /\ Fairness

\* The revisions that have the recently-played fallback.
InitFallbackRevisions == InitFor({"mjs", "fallback"})
SpecFallbackRevisions == InitFallbackRevisions /\ [][Next]_vars

\* The current handler and the earliest revision.
InitBasicRevisions == InitFor({"mjs", "basic"})
SpecBasicRevisions == InitBasicRevisions /\ [][Next]_vars

Positions ==
  {"idle", "token_fetch", "token_json", "token_return", "now_playing_fetch",
   "now_playing_json", "recent_fetch", "recent_json", "reply", "done"}

TypeOK ==
  /\ rev \in Revisions
  /\ pc \in [Invocations -> Positions]
  /\ \A i \in Invocations : Len(calls[i]) <= 3 /\ Len(written[i]) <= 1

\* ======================================================= properties
\* What the upstream answered, said without the handler's own operators.
Done(i) == pc[i] = "done"
\* getNowPlaying has settled: the reply is about to be written, or written.
Settled(i) == pc[i] \in {"reply", "done"} /\ Len(written[i]) = (IF Done(i) THEN 1 ELSE 0)
Reply(i) == written[i][1]
Answer(i, k) == calls[i][k].response

\* The token endpoint answered 2xx with an access_token.
TokenSucceeded(answer) ==
  /\ answer.kind = "response"
  /\ answer.status \in 200..299
  /\ answer.body.kind = "object"
  /\ answer.body.access_token \notin {Undefined, ""}

\* The token endpoint answered non-2xx, or 2xx without an access_token.
TokenFailed(answer) ==
  /\ answer.kind = "response"
  /\ \/ answer.status \notin 200..299
     \/ answer.body.kind = "object" /\ answer.body.access_token = Undefined

\* Status 200, is_playing true and an item of type 'track'.
ActiveTrackAnswer(answer) ==
  /\ answer.kind = "response"
  /\ answer.status = 200
  /\ answer.body.kind = "object"
  /\ answer.body.is_playing = TRUE
  /\ answer.body.item.kind = "object"
  /\ answer.body.item.type = "track"

\* The recently-played endpoint answered 2xx with a parsed history.
HistoryAnswer(answer) ==
  /\ answer.kind = "response"
  /\ answer.status \in 200..299
  /\ answer.body.kind = "object"

\* The artist names of the tracks of the model, joined by ', '.
JoinedArtists(track) ==
  CASE track.name = "Song A" -> "Ann, Bob"
    [] track.name = "Song B" -> "Cy"

TrackKeys == {"trackName", "artistName", "songUrl", "progressMs", "durationMs"}

\* The reply carries the track's name, artists, url and duration.
CarriesTrack(body, track) ==
  /\ TrackKeys \subseteq DOMAIN body
  /\ body.trackName = track.name
  /\ body.artistName = JoinedArtists(track)
  /\ body.songUrl = track.external_urls.spotify
  /\ body.durationMs = track.duration_ms

\* Invocation i exchanged its token successfully and asked for the current track.
AskedPlayback(i) == Len(calls[i]) >= 2 /\ TokenSucceeded(Answer(i, 1))

\* Invocation i went on to ask for the history.
AskedRecent(i) == Len(calls[i]) >= 3 /\ TokenSucceeded(Answer(i, 1))

\* C1: when the token exchange succeeds and the currently-playing endpoint
\* answers 200 with is_playing true and a track item, the reply is HTTP 200,
\* status 'playing', isPlaying true, with trackName, artistName (names joined
\* by ', '), songUrl, progressMs and durationMs of that item.
C1_PlayingReply ==
  \A i \in Invocations :
    (AskedPlayback(i) /\ ActiveTrackAnswer(Answer(i, 2))) =>
      /\ Settled(i)
      /\ Len(calls[i]) = 2
      /\ Done(i) =>
           /\ Reply(i).status = 200
           /\ "status" \in DOMAIN Reply(i).body
           /\ Reply(i).body.status = "playing"
           /\ Reply(i).body.isPlaying = TRUE
           /\ CarriesTrack(Reply(i).body, Answer(i, 2).body.item)
           /\ Reply(i).body.progressMs = Answer(i, 2).body.progress_ms

\* A track with two artists is playing and its reply has been written.
C1_Witness ==
  \E i \in Invocations :
    /\ AskedPlayback(i) /\ ActiveTrackAnswer(Answer(i, 2))
    /\ Len(Answer(i, 2).body.item.artists) = 2
    /\ Done(i) /\ Reply(i).body.status = "playing"

\* C2: when the token exchange succeeds, no track is active and the history
\* query succeeds with at least one item, the reply is HTTP 200, status
\* 'last_played', isPlaying false, progressMs 0, and the other track fields
\* are those of the first history item.
C2_LastPlayedReply ==
  \A i \in Invocations :
    ( /\ AskedRecent(i)
      /\ HistoryAnswer(Answer(i, 3))
      /\ Len(Answer(i, 3).body.items) >= 1 ) =>
      /\ ~ActiveTrackAnswer(Answer(i, 2))
      /\ Settled(i)
      /\ Done(i) =>
           /\ Reply(i).status = 200
           /\ Reply(i).body.status = "last_played"
           /\ Reply(i).body.isPlaying = FALSE
           /\ CarriesTrack(Reply(i).body, Answer(i, 3).body.items[1].track)
           /\ Reply(i).body.progressMs = 0

\* A history of two different tracks has been answered and replied to.
C2_Witness ==
  \E i \in Invocations :
    /\ AskedRecent(i) /\ HistoryAnswer(Answer(i, 3))
    /\ Len(Answer(i, 3).body.items) = 2
    /\ Done(i) /\ Reply(i).body.status = "last_played"

\* C3: when the token exchange succeeds, no track is active and the history
\* query succeeds with an empty list, the reply is HTTP 200 with the body
\* exactly {status: 'offline', isPlaying: false}.
C3_OfflineReply ==
  \A i \in Invocations :
    ( /\ AskedRecent(i)
      /\ HistoryAnswer(Answer(i, 3))
      /\ Len(Answer(i, 3).body.items) = 0 ) =>
      /\ Settled(i)
      /\ Done(i) =>
           /\ Reply(i).status = 200
           /\ DOMAIN Reply(i).body = {"status", "isPlaying"}
           /\ Reply(i).body.status = "offline"
           /\ Reply(i).body.isPlaying = FALSE

\* An empty history has been answered with 200 and replied to.
C3_Witness ==
  \E i \in Invocations :
    /\ AskedRecent(i) /\ HistoryAnswer(Answer(i, 3))
    /\ Len(Answer(i, 3).body.items) = 0
    /\ Done(i) /\ Len(written[i]) = 1

\* C4: when the token exchange fails (non-2xx, or 2xx without access_token)
\* the reply is HTTP 500 with status 'error', isPlaying false and a non-empty
\* error message, and no other endpoint is queried.
C4_TokenFailureReply ==
  \A i \in Invocations :
    (Len(calls[i]) >= 1 /\ TokenFailed(Answer(i, 1))) =>
      /\ Len(calls[i]) = 1
      /\ calls[i][1].endpoint = "token"
      /\ pc[i] \in {"token_json", "token_return", "reply", "done"}
      /\ Len(written[i]) = (IF Done(i) THEN 1 ELSE 0)
      /\ Done(i) =>
           /\ Reply(i).status = 500
           /\ DOMAIN Reply(i).body = {"status", "isPlaying", "error"}
           /\ Reply(i).body.status = "error"
           /\ Reply(i).body.isPlaying = FALSE
           /\ Reply(i).body.error # ""

\* Both kinds of failure have happened: a 401 and a 2xx without a token.
C4_Witness ==
  /\ \E i \in Invocations :
       Len(calls[i]) = 1 /\ Done(i) /\ Answer(i, 1) = TokenDenied
  /\ \E i \in Invocations :
       Len(calls[i]) = 1 /\ Done(i) /\ Answer(i, 1) = TokenMissing

\* C5: when the recently-played query answers a non-success status the
\* handler does not raise: the reply is HTTP 200 with
\* {status: 'offline', isPlaying: false}, never HTTP 500.
C5_FallbackFailureOffline ==
  \A i \in Invocations :
    ( /\ AskedRecent(i)
      /\ Answer(i, 3).kind = "response"
      /\ Answer(i, 3).status \notin 200..299 ) =>
      /\ Settled(i)
      /\ Done(i) =>
           /\ Reply(i).status = 200
           /\ DOMAIN Reply(i).body = {"status", "isPlaying"}
           /\ Reply(i).body.status = "offline"
           /\ Reply(i).body.isPlaying = FALSE

\* A currently-playing response: any status, and with status 200 a body that
\* is a JSON object.
PlaybackAnswer(answer) ==
  /\ answer.kind = "response"
  /\ answer.status = 200 => answer.body.kind = "object"

\* The history query itself failed: the fetch was rejected or a 2xx body was
\* not JSON.
RecentFailed(answer) ==
  \/ answer.kind = "reject"
  \/ answer.status \in 200..299 /\ answer.body.kind = "empty"

\* C6: for every currently-playing response other than (200, is_playing
\* true, track item), that is 204, 404, any other non-200 status, a 200 with
\* a non-track or missing item, a 200 with is_playing false, no exception is
\* raised at the playback step and the handler goes on to query the
\* recently-played endpoint; the reply is last_played or offline as the
\* fallback decides, and is 'error' only when the fallback query itself fails.
C6_PlaybackFallsThrough ==
  \A i \in Invocations :
    ( /\ AskedPlayback(i)
      /\ PlaybackAnswer(Answer(i, 2))
      /\ ~ActiveTrackAnswer(Answer(i, 2)) ) =>
      /\ Len(calls[i]) = 3
      /\ calls[i][3].endpoint = "recent"
      /\ pc[i] \in {"recent_fetch", "recent_json", "reply", "done"}
      /\ Len(written[i]) = (IF Done(i) THEN 1 ELSE 0)
      /\ Done(i) =>
           /\ Reply(i).status \in {200, 500}
           /\ Reply(i).status = 200 =>
                ( /\ "status" \in DOMAIN Reply(i).body
                  /\ Reply(i).body.status \in {"last_played", "offline"} )
           /\ Reply(i).status = 500 => RecentFailed(Answer(i, 3))

AllTrackKeys ==
  {"status", "isPlaying", "trackName", "artistName", "albumArtUrl", "songUrl",
   "progressMs", "durationMs"}

\* C7: when the track (active, or first of the history) has no album image,
\* the reply is still HTTP 200 with status 'playing' or 'last_played',
\* albumArtUrl is absent and every other track field is present.
C7_NoImageNoError ==
  \A i \in Invocations :
    /\ ( /\ AskedPlayback(i)
          /\ ActiveTrackAnswer(Answer(i, 2))
          /\ Len(Answer(i, 2).body.item.album.images) = 0 ) =>
          /\ Settled(i)
          /\ Done(i) =>
               /\ Reply(i).status = 200
               /\ Reply(i).body.status = "playing"
               /\ DOMAIN Reply(i).body = AllTrackKeys \ {"albumArtUrl"}
               /\ CarriesTrack(Reply(i).body, Answer(i, 2).body.item)
    /\ ( /\ AskedRecent(i)
          /\ HistoryAnswer(Answer(i, 3))
          /\ Len(Answer(i, 3).body.items) >= 1
          /\ Len(Answer(i, 3).body.items[1].track.album.images) = 0 ) =>
          /\ Settled(i)
          /\ Done(i) =>
               /\ Reply(i).status = 200
               /\ Reply(i).body.status = "last_played"
               /\ DOMAIN Reply(i).body = AllTrackKeys \ {"albumArtUrl"}
               /\ CarriesTrack(Reply(i).body, Answer(i, 3).body.items[1].track)

\* An active track without images and a history track without images have
\* both been replied to.
C7_Witness ==
  /\ \E i \in Invocations :
       /\ AskedPlayback(i) /\ ActiveTrackAnswer(Answer(i, 2))
       /\ Answer(i, 2).body.item.album.images = <<>>
       /\ Done(i)
  /\ \E i \in Invocations :
       /\ AskedRecent(i) /\ HistoryAnswer(Answer(i, 3))
       /\ Len(Answer(i, 3).body.items) >= 1
       /\ Answer(i, 3).body.items[1].track.album.images = <<>>
       /\ Done(i)

\* An upstream answer without what differs between two exchanges of the same
\* upstream state: the value of the token and the playback progress.
SameState(answer) ==
  IF answer.kind # "response" \/ answer.body.kind # "object" THEN answer
  ELSE IF "access_token" \in DOMAIN answer.body
       THEN Response(answer.status,
              [kind |-> "object", granted |-> answer.body.access_token # Undefined])
  ELSE IF "progress_ms" \in DOMAIN answer.body
       THEN Response(answer.status, [answer.body EXCEPT !.progress_ms = 0])
  ELSE answer

SameUpstream(i, j) ==
  /\ Len(calls[i]) = Len(calls[j])
  /\ \A k \in 1..Len(calls[i]) :
       /\ calls[i][k].endpoint = calls[j][k].endpoint
       /\ SameState(Answer(i, k)) = SameState(Answer(j, k))

SameReply(r1, r2) ==
  /\ r1.status = r2.status
  /\ r1.headers = r2.headers
  /\ DOMAIN r1.body = DOMAIN r2.body
  /\ \A key \in DOMAIN r1.body \ {"progressMs"} : r1.body[key] = r2.body[key]

\* C8: the handler keeps nothing between invocations.  Two invocations that
\* saw the same upstream state write the same HTTP status and body (apart
\* from progressMs); every invocation starts with its own token exchange and
\* sends the token of that exchange, never another one.
C8_Stateless ==
  /\ \A i, j \in Invocations :
       (Done(i) /\ Done(j) /\ SameUpstream(i, j)) => SameReply(Reply(i), Reply(j))
  /\ \A i \in Invocations :
       /\ pc[i] # "idle" =>
            /\ Len(calls[i]) >= 1
            /\ calls[i][1].endpoint = "token"
            /\ calls[i][1].auth = BasicAuth
       /\ \A k \in 2..Len(calls[i]) :
            /\ TokenSucceeded(Answer(i, 1))
            /\ calls[i][k].auth = "Bearer " \o Answer(i, 1).body.access_token
            /\ \A j \in Invocations \ {i} :
                 calls[i][k].auth # "Bearer " \o IssuedToken(j)

\* Two invocations have replied to the same track at different progress,
\* each after its own exchange.
C8_Witness ==
  \E i, j \in Invocations :
    /\ i # j /\ Done(i) /\ Done(j)
    /\ SameUpstream(i, j)
    /\ Len(calls[i]) = 2
    /\ ActiveTrackAnswer(Answer(i, 2))
    /\ Answer(i, 2).body.progress_ms # Answer(j, 2).body.progress_ms
    /\ Answer(i, 1).body.access_token # Answer(j, 1).body.access_token

Endpoints == <<"token", "now_playing", "recent">>

\* The order of the calls of invocation i and the reply it has written.
C9_Order(i) ==
  /\ Len(calls[i]) <= 3
  /\ \A k \in 1..Len(calls[i]) : calls[i][k].endpoint = Endpoints[k]
  /\ Len(calls[i]) >= 2 => TokenSucceeded(Answer(i, 1))
  /\ Len(calls[i]) >= 3 =>
       (Answer(i, 2).kind = "response" /\ ~ActiveTrackAnswer(Answer(i, 2)))
  /\ pc[i] = "idle" => Len(calls[i]) = 0
  /\ Len(written[i]) = (IF Done(i) THEN 1 ELSE 0)
  /\ Done(i) =>
       /\ Len(calls[i]) >= 1
       /\ "status" \in DOMAIN Reply(i).body
       /\ Reply(i).body.status \in {"playing", "last_played", "offline", "error"}

\* Once the reply is written the invocation calls and writes nothing more.
C9_Final(i) ==
  Done(i) => (Done(i)' /\ calls'[i] = calls[i] /\ written'[i] = written[i])

\* How far invocation i is along the pipeline.
Rank(position) ==
  CASE position = "idle" -> 0
    [] position = "token_fetch" -> 1
    [] position = "token_json" -> 2
    [] position = "token_return" -> 3
    [] position = "now_playing_fetch" -> 4
    [] position = "now_playing_json" -> 5
    [] position = "recent_fetch" -> 6
    [] position = "recent_json" -> 7
    [] position = "reply" -> 8
    [] position = "done" -> 9

\* No step goes back or repeats: whatever changes for invocation i moves it
\* forward.
C9_Forward(i) ==
  \/ Rank(pc'[i]) > Rank(pc[i])
  \/ /\ pc'[i] = pc[i] /\ calls'[i] = calls[i]
     /\ written'[i] = written[i] /\ result'[i] = result[i]

\* The step invocation i takes when the promise it awaits settles.
Settle(i) ==
  \/ TokenFetched(i)
  \/ TokenParsed(i)
  \/ TokenReturned(i)
  \/ PlaybackFetched(i)
  \/ PlaybackParsed(i)
  \/ RecentFetched(i)
  \/ RecentParsed(i)
  \/ Respond(i)

\* A started invocation that has not replied can always go on as soon as what
\* it awaits settles.
C9_NotStuck(i) == pc[i] \notin {"idle", "done"} => ENABLED Settle(i)

\* C9: the token endpoint is called first, the currently-playing endpoint
\* only after a successful exchange, the recently-played endpoint only after
\* no active track was found, each at most once; and when every outbound call
\* returns, exactly one reply is written, whose outcome is playing,
\* last_played, offline or error: a started invocation is never stuck, every
\* step moves it forward, and at the end it has written one reply.
C9_Pipeline ==
  /\ [](\A i \in Invocations : C9_Order(i) /\ C9_NotStuck(i))
  /\ [][\A i \in Invocations : C9_Final(i) /\ C9_Forward(i)]_vars

\* With every awaited promise settling, every started invocation writes its
\* one reply.
Terminates ==
  \A i \in Invocations : (pc[i] = "token_fetch") ~> (Done(i) /\ Len(written[i]) = 1)

\* An invocation has made all three calls in order and written its reply.
C9_Witness ==
  \E i \in Invocations :
    /\ Len(calls[i]) = 3
    /\ Done(i) /\ Len(written[i]) = 1

OkStatuses == {"playing", "last_played", "offline"}

\* C10: in every reply the HTTP status is 200 exactly when the body status is
\* playing, last_played or offline and 500 exactly when it is error;
\* isPlaying is true only for playing; the body has an error field only for
\* error; the cache-control header is on the 200 replies and not on the 500.
C10_ReplyShape ==
  \A i \in Invocations : \A k \in 1..Len(written[i]) :
    LET r == written[i][k] IN
    /\ r.status \in {200, 500}
    /\ {"status", "isPlaying"} \subseteq DOMAIN r.body
    /\ r.status = 200 <=> r.body.status \in OkStatuses
    /\ r.status = 500 <=> r.body.status = "error"
    /\ r.body.isPlaying = TRUE => r.body.status = "playing"
    /\ "error" \in DOMAIN r.body <=> r.body.status = "error"
    /\ "cache-control" \in DOMAIN r.headers <=> r.status = 200
    /\ r.status = 200 =>
         r.headers["cache-control"] = "public, s-maxage=10, stale-while-revalidate=5"

\* An error reply and a playing reply have both been written.
C10_Witness ==
  /\ \E i \in Invocations : Done(i) /\ Reply(i).status = 500
  /\ \E i \in Invocations : Done(i) /\ Reply(i).body.status = "playing"

====
